---- MODULE Spec2Model ----
(***************************************************************************)
(* A model of inscope (src/main.go): the scope checker built from a scope  *)
(* file (newScopeChecker), the classification of one input (inScope) with  *)
(* its statistics, and the pure helpers isURL, getHostname,                *)
(* normalizeDomain and convertWildcardToRegex.                             *)
(*                                                                         *)
(* A Go string is modelled as a sequence of one-character strings, so that *)
(* every conversion is computed character by character as the code does.   *)
(***************************************************************************)
EXTENDS Integers, Sequences, FiniteSets, TLC

\* The element of a one-element set.  A value is bound as v \in { e } where
\* it is to be computed once, at the binding, rather than at each use.
Only(S) == CHOOSE v \in S : TRUE

----------------------------------------------------------------------------
(* Package strings, as far as main.go uses it.                             *)

UpperChars ==
  << "A", "B", "C", "D", "E", "F", "G", "H", "I", "J", "K", "L", "M",
     "N", "O", "P", "Q", "R", "S", "T", "U", "V", "W", "X", "Y", "Z" >>

LowerChars ==
  << "a", "b", "c", "d", "e", "f", "g", "h", "i", "j", "k", "l", "m",
     "n", "o", "p", "q", "r", "s", "t", "u", "v", "w", "x", "y", "z" >>

Digits == { "0", "1", "2", "3", "4", "5", "6", "7", "8", "9" }

ToLowerChar(c) ==
  IF \E i \in DOMAIN UpperChars : UpperChars[i] = c
  THEN LowerChars[CHOOSE i \in DOMAIN UpperChars : UpperChars[i] = c]
  ELSE c

\* strings.ToLower
ToLower(s) == [i \in 1..Len(s) |-> ToLowerChar(s[i])]

\* strings.HasPrefix
HasPrefix(s, p) == Len(p) <= Len(s) /\ SubSeq(s, 1, Len(p)) = p

\* strings.HasSuffix
HasSuffix(s, p) ==
  Len(p) <= Len(s) /\ SubSeq(s, Len(s) - Len(p) + 1, Len(s)) = p

\* strings.Index, 1-based; 0 when sub does not occur in s
Index(s, sub) ==
  LET at == { i \in 1..(Len(s) - Len(sub) + 1) :
                SubSeq(s, i, i + Len(sub) - 1) = sub }
  IN IF at = {} THEN 0 ELSE CHOOSE i \in at : \A j \in at : i <= j

\* strings.LastIndex, 1-based; 0 when sub does not occur in s
LastIndex(s, sub) ==
  LET at == { i \in 1..(Len(s) - Len(sub) + 1) :
                SubSeq(s, i, i + Len(sub) - 1) = sub }
  IN IF at = {} THEN 0 ELSE CHOOSE i \in at : \A j \in at : i >= j

\* strings.Contains
Contains(s, sub) == Index(s, sub) # 0

\* strings.ContainsAny
ContainsAny(s, chars) == \E i \in 1..Len(s) : s[i] \in chars

\* strings.TrimSuffix: removes ONE trailing occurrence of suf
TrimSuffix(s, suf) ==
  IF HasSuffix(s, suf) THEN SubSeq(s, 1, Len(s) - Len(suf)) ELSE s

WhiteSpace == { " ", "\t" }

\* strings.TrimSpace
TrimSpace(s) ==
  LET ink == { i \in 1..Len(s) : s[i] \notin WhiteSpace }
  IN IF ink = {} THEN << >>
     ELSE SubSeq(s, CHOOSE i \in ink : \A j \in ink : i <= j,
                    CHOOSE i \in ink : \A j \in ink : i >= j)

\* strings.ReplaceAll(s, old, new) for a one-character old
RECURSIVE ReplaceAll(_, _, _)
ReplaceAll(s, old, new) ==
  IF s = << >> THEN << >>
  ELSE (IF Head(s) = old THEN new ELSE << Head(s) >>)
       \o ReplaceAll(Tail(s), old, new)

----------------------------------------------------------------------------
(* normalizeDomain, main.go lines 245-261.                                 *)

\* the mutant removes every trailing dot (strings.TrimRight) instead of one
RECURSIVE normalizeDomainTrimRight(_)
normalizeDomainTrimRight(domain) ==
  LET d0 == ToLower(domain)
  IN IF HasSuffix(d0, << "." >>)
     THEN normalizeDomainTrimRight(SubSeq(d0, 1, Len(d0) - 1))
     ELSE LET idx == LastIndex(d0, << ":" >>)
          IN IF idx # 0
                /\ ~Contains(SubSeq(d0, 1, idx - 1), << ":" >>)
                /\ ~HasPrefix(d0, << "[" >>)
             THEN SubSeq(d0, 1, idx - 1)
             ELSE d0

normalizeDomain(domain) ==
  LET d0  == ToLower(domain)
      d1  == TrimSuffix(d0, << "." >>)
      idx == LastIndex(d1, << ":" >>)
  IN IF idx # 0
        /\ ~Contains(SubSeq(d1, 1, idx - 1), << ":" >>)
        /\ ~HasPrefix(d1, << "[" >>)
     THEN SubSeq(d1, 1, idx - 1)
     ELSE d1

----------------------------------------------------------------------------
(* convertWildcardToRegex, main.go lines 263-284.                          *)

RegexMeta == { "^", "$", "[", "]", "{", "}", "(", ")", "+", "?", "|", "\\" }

\* the mutant forgets to escape the dots
convertWildcardNoEscape(pattern) ==
  IF ContainsAny(pattern, RegexMeta) THEN pattern
  ELSE << "^" >> \o ReplaceAll(pattern, "*", << ".", "*" >>) \o << "$" >>

\* the mutant forgets the anchors
convertWildcardUnanchored(pattern) ==
  IF ContainsAny(pattern, RegexMeta) THEN pattern
  ELSE ReplaceAll(ReplaceAll(pattern, ".", << "\\", "." >>), "*", << ".", "*" >>)

convertWildcardToRegex(pattern) ==
  IF ContainsAny(pattern, RegexMeta) THEN pattern
  ELSE LET p1 == ReplaceAll(pattern, ".", << "\\", "." >>)
           p2 == ReplaceAll(p1, "*", << ".", "*" >>)
           p3 == IF ~HasPrefix(p2, << "^" >>) THEN << "^" >> \o p2 ELSE p2
           p4 == IF ~HasSuffix(p3, << "$" >>) THEN p3 \o << "$" >> ELSE p3
       IN p4

----------------------------------------------------------------------------
(* Package regexp, as far as the patterns of a scope file reach it.  The   *)
(* expressions modelled are those built from literal characters, ".",      *)
(* an escaped character, "^", "$" and the repetition "*": what             *)
(* convertWildcardToRegex produces from a wildcard line, and what a line   *)
(* written with "^" or "$" passes through.  A compiled expression keeps    *)
(* its source text (Regexp.String) and its tokens.                         *)

RegexpError == [ok |-> FALSE, src |-> << >>, toks |-> << >>]

\* regexp/syntax: one token per atom; "*" marks the atom before it, and is
\* an error with no atom before it or after another repetition
RECURSIVE regexpParse(_, _, _)
regexpParse(src, rest, toks) ==
  IF rest = << >> THEN [ok |-> TRUE, src |-> src, toks |-> toks]
  ELSE LET c == Head(rest)
           atom(kind, ch, n) ==
             regexpParse(src, SubSeq(rest, n + 1, Len(rest)),
                         Append(toks, [kind |-> kind, ch |-> ch, star |-> FALSE]))
       IN CASE c = "\\" -> IF Len(rest) < 2 THEN RegexpError
                            ELSE atom("lit", rest[2], 2)
            [] c = "*"  -> IF toks = << >> \/ toks[Len(toks)].star
                           THEN RegexpError
                           ELSE regexpParse(src, Tail(rest),
                                            [toks EXCEPT ![Len(toks)].star = TRUE])
            [] c = "."  -> atom("any", c, 1)
            [] c = "^"  -> atom("begin", c, 1)
            [] c = "$"  -> atom("end", c, 1)
            [] OTHER    -> atom("lit", c, 1)

\* regexp.Compile
regexpCompile(src) == regexpParse(src, src, << >>)

\* whether toks[k..] match s from position p on (backtracking over "*");
\* "^" and "$" are the begin and end of the text (no multi-line flag)
RECURSIVE regexpMatchAt(_, _, _, _)
regexpMatchAt(toks, k, s, p) ==
  IF k > Len(toks) THEN TRUE
  ELSE LET t == toks[k]
           accepts == p <= Len(s)
                      /\ (t.kind = "any" \/ (t.kind = "lit" /\ s[p] = t.ch))
       IN CASE t.kind = "begin" ->
                 (t.star \/ p = 1) /\ regexpMatchAt(toks, k + 1, s, p)
            [] t.kind = "end" ->
                 (t.star \/ p = Len(s) + 1) /\ regexpMatchAt(toks, k + 1, s, p)
            [] OTHER ->
                 IF t.star
                 THEN regexpMatchAt(toks, k + 1, s, p)
                      \/ (accepts /\ regexpMatchAt(toks, k, s, p + 1))
                 ELSE accepts /\ regexpMatchAt(toks, k + 1, s, p + 1)

\* Regexp.MatchString: an unanchored search
MatchString(re, s) ==
  \E p \in 1..(Len(s) + 1) : regexpMatchAt(re.toks, 1, s, p)

----------------------------------------------------------------------------
(* isURL, main.go lines 230-243.                                           *)

isURL(input) ==
  LET s == TrimSpace(ToLower(input))
  IN \/ Contains(s, << ":", "/", "/" >>)
     \/ HasPrefix(s, << "h", "t", "t", "p", ":" >>)
     \/ HasPrefix(s, << "h", "t", "t", "p", "s", ":" >>)
     \/ HasPrefix(s, << "f", "t", "p", ":" >>)
     \/ HasPrefix(s, << "w", "s", ":" >>)
     \/ HasPrefix(s, << "w", "s", "s", ":" >>)
     \/ Contains(s, << "/" >>)
     \/ Contains(s, << "?" >>)
     \/ Contains(s, << "#" >>)

----------------------------------------------------------------------------
(* Package net/url, as far as getHostname reaches it: url.Parse and        *)
(* URL.Hostname on strings without "@", "%" or "[", which select the       *)
(* userinfo, escape and IP-literal branches that are not modelled.         *)

Letters == { UpperChars[i] : i \in DOMAIN UpperChars }
             \cup { LowerChars[i] : i \in DOMAIN LowerChars }

\* the bytes url.shouldEscape leaves alone in a host
HostChars ==
  Letters \cup Digits
  \cup { "-", "_", ".", "~", "!", "$", "&", "'", "(", ")", "*", "+", ",",
         ";", "=", ":", "[", "]", "<", ">", "\"" }

\* strings.Cut: the text before and after the first sep
Cut(s, sep) ==
  LET i == Index(s, sep)
  IN IF i = 0 THEN << s, << >> >>
     ELSE << SubSeq(s, 1, i - 1), SubSeq(s, i + Len(sep), Len(s)) >>

\* url.getScheme
getScheme(raw) ==
  LET stops == { i \in 1..Len(raw) :
                   raw[i] \notin Letters \cup Digits \cup { "+", "-", "." } }
      j     == CHOOSE i \in stops : \A k \in stops : i <= k
      none  == [err |-> FALSE, scheme |-> << >>, rest |-> raw]
  IN IF raw # << >> /\ raw[1] \in Digits \cup { "+", "-", "." } THEN none
     ELSE IF stops = {} THEN none
     ELSE IF raw[j] # ":" THEN none
     ELSE IF j = 1 THEN [err |-> TRUE, scheme |-> << >>, rest |-> << >>]
     ELSE [err |-> FALSE, scheme |-> SubSeq(raw, 1, j - 1),
           rest |-> SubSeq(raw, j + 1, Len(raw))]

\* url.validOptionalPort: empty, or ":" and digits
validOptionalPort(port) ==
  port = << >>
  \/ (port[1] = ":" /\ \A i \in 2..Len(port) : port[i] \in Digits)

\* url.parseHost (no IP literal): the port must be valid, and so every byte
parseHost(host) ==
  LET i == LastIndex(host, << ":" >>)
  IN IF i # 0 /\ ~validOptionalPort(SubSeq(host, i, Len(host)))
     THEN [err |-> TRUE, host |-> << >>]
     ELSE IF \E k \in 1..Len(host) : host[k] \notin HostChars
     THEN [err |-> TRUE, host |-> << >>]
     ELSE [err |-> FALSE, host |-> host]

\* url.Parse: the error and the Host of the URL
urlParse(rawURL) ==
  LET u     == Cut(rawURL, << "#" >>)[1]
      sch   == getScheme(u)
      rest  == Cut(sch.rest, << "?" >>)[1]
      noHost == [err |-> FALSE, host |-> << >>]
  IN IF u = << "*" >> THEN noHost
     ELSE IF sch.err THEN [err |-> TRUE, host |-> << >>]
     ELSE IF ~HasPrefix(rest, << "/" >>) /\ sch.scheme # << >> THEN noHost
     ELSE IF ~HasPrefix(rest, << "/" >>)
             /\ Contains(Cut(rest, << "/" >>)[1], << ":" >>)
     THEN [err |-> TRUE, host |-> << >>]
     ELSE IF (sch.scheme # << >> \/ ~HasPrefix(rest, << "/", "/", "/" >>))
             /\ HasPrefix(rest, << "/", "/" >>)
     THEN parseHost(Cut(SubSeq(rest, 3, Len(rest)), << "/" >>)[1])
     ELSE noHost

\* URL.Hostname (url.splitHostPort): the host without a valid port
Hostname(host) ==
  LET colon == LastIndex(host, << ":" >>)
      h     == IF colon # 0 /\ validOptionalPort(SubSeq(host, colon, Len(host)))
               THEN SubSeq(host, 1, colon - 1) ELSE host
  IN IF HasPrefix(h, << "[" >>) /\ HasSuffix(h, << "]" >>)
     THEN SubSeq(h, 2, Len(h) - 1) ELSE h

----------------------------------------------------------------------------
(* getHostname, main.go lines 211-228.                                     *)

getHostname(input) ==
  LET s == IF ~Contains(input, << ":", "/", "/" >>)
           THEN << "h", "t", "t", "p", ":", "/", "/" >> \o input
           ELSE input
      u == urlParse(s)
      hostname == Hostname(u.host)
  IN IF u.err THEN [err |-> TRUE, hostname |-> << >>]
     ELSE IF hostname = << >> THEN [err |-> TRUE, hostname |-> << >>]
     ELSE [err |-> FALSE, hostname |-> hostname]

----------------------------------------------------------------------------
(* The scope-file lines and the inputs the specifications draw from.       *)

\* an include written with a wildcard
LineWildcard ==
  << "*", ".", "e", "x", "a", "m", "p", "l", "e", ".", "c", "o", "m" >>

\* an include written as a regular expression
LineRegex ==
  << "^", ".", "*", "\\", ".", "c", "o", "m", "$" >>

\* an exclude
LineExclude ==
  << "!", "a", "d", "m", "i", "n", ".", "e", "x", "a", "m", "p", "l", "e", ".", "c", "o", "m" >>

\* an exclude with a blank after the mark
LineExcludeWild ==
  << "!", " ", "*", "a", "d", "m", "i", "n", "*" >>

\* an include without a wildcard
LineLiteral ==
  << "e", "x", "a", "m", "p", "l", "e", ".", "c", "o", "m" >>

\* a comment, indented
LineComment ==
  << " ", " ", "#", " ", "s", "t", "a", "g", "i", "n", "g", " ", "h", "o", "s", "t", "s" >>

\* a blank line
LineBlank ==
  << " ", " " >>

\* a line regexp.Compile rejects: a wildcard line with an anchor
LineBad ==
  << "*", ".", "e", "x", "a", "m", "p", "l", "e", ".", "c", "o", "m", "$" >>

InFoo ==
  << "f", "o", "o", ".", "e", "x", "a", "m", "p", "l", "e", ".", "c", "o", "m" >>

InAdmin ==
  << "a", "d", "m", "i", "n", ".", "e", "x", "a", "m", "p", "l", "e", ".", "c", "o", "m" >>

InApex ==
  << "e", "x", "a", "m", "p", "l", "e", ".", "c", "o", "m" >>

InEvil ==
  << "e", "v", "i", "l", ".", "o", "r", "g" >>

InURL ==
  << "H", "T", "T", "P", "S", ":", "/", "/", "E", "x", "a", "m", "p", "l", "e", ".", "C", "O", "M", ":", "8", "4", "4", "3", "/", "p", "a", "t", "h" >>

\* URL-like, and no hostname in it
InPath ==
  << "/", "a", "d", "m", "i", "n" >>

\* URL-like, and url.Parse rejects its host
InInvalid ==
  << "n", "o", "t", " ", "a", " ", "v", "a", "l", "i", "d", " ", "u", "r", "l", "?", "?", "?" >>

InIPv6 ==
  << "[", ":", ":", "1", "]", ":", "8", "0", "8", "0" >>

InDotPort ==
  << "e", "x", "a", "m", "p", "l", "e", ".", "c", "o", "m", ".", ":", "4", "4", "3" >>

InPortDot ==
  << "e", "x", "a", "m", "p", "l", "e", ".", "c", "o", "m", ":", "4", "4", "3", "." >>

----------------------------------------------------------------------------
(* The state.                                                              *)

VARIABLES
  strict,     \* config.strict
  scopeFile,  \* the reader given to newScopeChecker: its lines, and whether it then fails
  checker,    \* the scopeChecker: patterns, antipatterns, and how it was built
  stats,      \* scopeChecker.stats
  mu,         \* scopeChecker.mu: 0 when free, else the goroutine holding it
  calls,      \* history: the number of inScope calls that have returned
  last,       \* history: the last inScope call, its result and the stats before it
  thr,        \* the goroutines inside inScope: position and locals of each
  fn          \* argument and result of a helper applied on its own

vars == << strict, scopeFile, checker, stats, mu, calls, last, thr, fn >>

\* bounds of the model
MaxLines == 3
MaxBuildLines == 3
MaxCalls == 2
NThreads == 2
MaxLen == 5
MaxLineLen == 4
MaxDomLen == 4

Threads == 1..NThreads

ZeroStats == [total |-> 0, inScope |-> 0, outScope |-> 0]

NoFile == [lines |-> << >>, readErr |-> FALSE]

NoChecker == [built |-> "none", err |-> "", patterns |-> << >>, antipatterns |-> << >>]

NoCall == [input |-> << >>, inScope |-> FALSE, label |-> << >>, before |-> ZeroStats]

IdleThread ==
  [pc |-> "idle", input |-> << >>, ctr |-> "", reg |-> 0,
   inScope |-> FALSE, label |-> << >>]

NoFn == [op |-> "none"]

\* every sequence over S of length at most n
SeqsUpTo(S, n) == UNION { [1..k -> S] : k \in 0..n }

----------------------------------------------------------------------------
(* newScopeChecker, main.go lines 102-149.                                 *)

\* line 115: the lines the loop skips
skipLine(line) == line = << >> \/ HasPrefix(line, << "#" >>)

\* the mutant accepts a file as long as it holds any pattern at all
noScopePatternsEither(pats, antis) == pats = << >> /\ antis = << >>

\* line 144
noScopePatterns(pats, antis) == pats = << >>

\* lines 110-148: the loop over the remaining lines, then the two checks
RECURSIVE scanLines(_, _, _, _)
scanLines(lines, readErr, pats, antis) ==
  IF lines = << >>
  THEN IF readErr
       THEN [built |-> "error", err |-> "read", patterns |-> << >>, antipatterns |-> << >>]
       ELSE IF noScopePatterns(pats, antis)
       THEN [built |-> "error", err |-> "nopatterns", patterns |-> << >>, antipatterns |-> << >>]
       ELSE [built |-> "ok", err |-> "", patterns |-> pats, antipatterns |-> antis]
  ELSE LET line0  == TrimSpace(Head(lines))
           isAnti == HasPrefix(line0, << "!" >>)
           line   == IF isAnti THEN TrimSpace(Tail(line0)) ELSE line0
           re     == regexpCompile(convertWildcardToRegex(line))
       IN IF skipLine(line0) THEN scanLines(Tail(lines), readErr, pats, antis)
          ELSE IF ~re.ok
          THEN [built |-> "error", err |-> "pattern", patterns |-> << >>, antipatterns |-> << >>]
          ELSE IF isAnti
          THEN scanLines(Tail(lines), readErr, pats, Append(antis, re))
          ELSE scanLines(Tail(lines), readErr, Append(pats, re), antis)

\* lines: what the scanner delivered; readErr: whether it then failed (sc.Err)
newScopeChecker(lines, readErr) == scanLines(lines, readErr, << >>, << >>)

----------------------------------------------------------------------------
(* scopeChecker.inScope, main.go lines 46-100.                             *)

\* the mutant falls back to the input whatever config.strict says
resolveDomainLenient(input) ==
  IF isURL(input) /\ ~getHostname(input).err
  THEN [fail |-> FALSE, domain |-> normalizeDomain(getHostname(input).hostname)]
  ELSE [fail |-> FALSE, domain |-> normalizeDomain(input)]

\* lines 51-69: the domain to match; fail is the early return of line 59
resolveDomain(input) ==
  IF isURL(input)
  THEN LET h == getHostname(input)
       IN IF h.err
          THEN IF strict THEN [fail |-> TRUE, domain |-> input]
               ELSE [fail |-> FALSE, domain |-> normalizeDomain(input)]
          ELSE [fail |-> FALSE, domain |-> normalizeDomain(h.hostname)]
  ELSE [fail |-> FALSE, domain |-> normalizeDomain(input)]

\* the mutant is the loop without its break: the last match stands
lastMatch(res, domain) ==
  LET hit == { i \in 1..Len(res) : MatchString(res[i], domain) }
  IN IF hit = {} THEN 0 ELSE CHOOSE i \in hit : \A j \in hit : i >= j

\* lines 73-79 and 82-83: the first expression that matches, 0 when none does
firstMatch(res, domain) ==
  LET hit == { i \in 1..Len(res) : MatchString(res[i], domain) }
  IN IF hit = {} THEN 0 ELSE CHOOSE i \in hit : \A j \in hit : i <= j

\* the mutant looks at the exclusions only when no include matched
verdictIncludeWins(pats, antis, i, x) ==
  IF i # 0
  THEN [inScope |-> TRUE, label |-> pats[i].src, ctr |-> "inScope"]
  ELSE IF x # 0
  THEN [inScope |-> FALSE, label |-> << "!" >> \o antis[x].src, ctr |-> "outScope"]
  ELSE [inScope |-> FALSE, label |-> << >>, ctr |-> "outScope"]

\* lines 72-99: the result, and the counter it is recorded in, from the
\* first matching include i and the first matching exclusion x
verdict(pats, antis, i, x) ==
  IF x # 0
  THEN [inScope |-> FALSE, label |-> << "!" >> \o antis[x].src, ctr |-> "outScope"]
  ELSE IF i # 0
  THEN [inScope |-> TRUE, label |-> pats[i].src, ctr |-> "inScope"]
  ELSE [inScope |-> FALSE, label |-> << >>, ctr |-> "outScope"]

\* lines 51-99 without the counters: ctr is "" on the early return
classify(s, input) ==
  Only({ IF r.fail THEN [inScope |-> FALSE, label |-> << >>, ctr |-> ""]
         ELSE Only({ verdict(s.patterns, s.antipatterns, i, x) :
                       i \in { firstMatch(s.patterns, r.domain) },
                       x \in { firstMatch(s.antipatterns, r.domain) } }) :
         r \in { resolveDomain(input) } })

\* s.stats.<ctr>++
bump(st, ctr) == IF ctr = "" THEN st ELSE [st EXCEPT ![ctr] = @ + 1]

\* one whole call by a single goroutine: the result and the stats after it
inScope(s, st, input) ==
  Only({ [inScope |-> v.inScope, label |-> v.label,
          stats |-> bump(bump(st, "total"), v.ctr)] :
         v \in { classify(s, input) } })

----------------------------------------------------------------------------
(* main, lines 151-209: the checker is built once, then every input line   *)
(* is classified in turn.                                                  *)

ScopeLines == { LineWildcard, LineRegex, LineExclude, LineExcludeWild }

Inputs == { InFoo, InAdmin, InEvil, InURL, InPath, InInvalid }

\* lines 163-167
NewScopeChecker(lines, readErr) ==
  /\ checker.built = "none"
  /\ scopeFile' = [lines |-> lines, readErr |-> readErr]
  /\ checker' = newScopeChecker(lines, readErr)
  /\ UNCHANGED << strict, stats, mu, calls, last, thr, fn >>

\* lines 171-177
InScope(input) ==
  /\ checker.built = "ok"
  /\ calls < MaxCalls
  /\ \E r \in { inScope(checker, stats, input) } :
       /\ stats' = r.stats
       /\ last' = [input |-> input, inScope |-> r.inScope, label |-> r.label,
                   before |-> stats]
  /\ calls' = calls + 1
  /\ UNCHANGED << strict, scopeFile, checker, mu, thr, fn >>

Init ==
  /\ strict \in BOOLEAN
  /\ scopeFile = NoFile
  /\ checker = NoChecker
  /\ stats = ZeroStats
  /\ mu = 0
  /\ calls = 0
  /\ last = NoCall
  /\ thr = [t \in Threads |-> IdleThread]
  /\ fn = NoFn

Next ==
  \/ \E lines \in SeqsUpTo(ScopeLines, MaxLines), readErr \in BOOLEAN :
       NewScopeChecker(lines, readErr)
  \/ \E input \in Inputs : InScope(input)

Spec == Init /\ [][Next]_vars

\* the construction alone, over every kind of line
BuildLines ==
  { LineWildcard, LineRegex, LineExclude, LineExcludeWild, LineLiteral,
    LineComment, LineBlank, LineBad }

NextBuild ==
  \E lines \in SeqsUpTo(BuildLines, MaxBuildLines), readErr \in BOOLEAN :
    NewScopeChecker(lines, readErr)

SpecBuild == Init /\ [][NextBuild]_vars


----------------------------------------------------------------------------
(* inScope called by several goroutines on one checker.  A call is cut at  *)
(* the places where it takes and releases s.mu (lines 47-49, 84-86 and     *)
(* 91-97); the increment under the lock is a load and a store.             *)

ConcScopeFile == << LineWildcard, LineExclude >>

ConcInputs == { InFoo, InAdmin, InPath }

\* the mutant takes the mutex without waiting for it
muFreeAlways == TRUE

\* sync.RWMutex.Lock (lines 47, 84, 91) returns once no goroutine holds mu
muFree == mu = 0

\* a goroutine enters inScope(input); it first counts the call (line 47)
Call(t, input) ==
  /\ thr[t].pc = "idle"
  /\ thr' = [thr EXCEPT ![t].pc = "lock", ![t].input = input, ![t].ctr = "total"]
  /\ UNCHANGED << strict, scopeFile, checker, stats, mu, calls, last, fn >>

\* s.mu.Lock(), lines 47, 84, 91
Lock(t) ==
  /\ thr[t].pc = "lock"
  /\ muFree
  /\ mu' = t
  /\ thr' = [thr EXCEPT ![t].pc = "load"]
  /\ UNCHANGED << strict, scopeFile, checker, stats, calls, last, fn >>

\* the read of s.stats.<ctr>++, lines 48, 85, 93, 95
Load(t) ==
  /\ thr[t].pc = "load"
  /\ thr' = [thr EXCEPT ![t].pc = "store", ![t].reg = stats[thr[t].ctr]]
  /\ UNCHANGED << strict, scopeFile, checker, stats, mu, calls, last, fn >>

\* the write of s.stats.<ctr>++, lines 48, 85, 93, 95
Store(t) ==
  /\ thr[t].pc = "store"
  /\ stats' = [stats EXCEPT ![thr[t].ctr] = thr[t].reg + 1]
  /\ thr' = [thr EXCEPT ![t].pc = "unlock"]
  /\ UNCHANGED << strict, scopeFile, checker, mu, calls, last, fn >>

\* s.mu.Unlock(), lines 49, 86, 97; after the last one the call returns
Unlock(t) ==
  /\ thr[t].pc = "unlock"
  /\ mu' = 0
  /\ thr' = [thr EXCEPT ![t].pc = IF thr[t].ctr = "total" THEN "match" ELSE "done"]
  /\ calls' = IF thr[t].ctr = "total" THEN calls ELSE calls + 1
  /\ UNCHANGED << strict, scopeFile, checker, stats, last, fn >>

\* lines 51-83, on the goroutine's own variables: the early return of line
\* 59, or else the result and the counter still to be incremented
Match(t) ==
  /\ thr[t].pc = "match"
  /\ \E v \in { classify(checker, thr[t].input) } :
       /\ thr' = [thr EXCEPT ![t].inScope = v.inScope, ![t].label = v.label,
                             ![t].ctr = v.ctr,
                             ![t].pc = IF v.ctr = "" THEN "done" ELSE "lock"]
       /\ calls' = IF v.ctr = "" THEN calls + 1 ELSE calls
  /\ UNCHANGED << strict, scopeFile, checker, stats, mu, last, fn >>

InitConc ==
  /\ strict \in BOOLEAN
  /\ scopeFile = [lines |-> ConcScopeFile, readErr |-> FALSE]
  /\ checker = newScopeChecker(ConcScopeFile, FALSE)
  /\ stats = ZeroStats
  /\ mu = 0
  /\ calls = 0
  /\ last = NoCall
  /\ thr = [t \in Threads |-> IdleThread]
  /\ fn = NoFn

NextConc ==
  \E t \in Threads :
    \/ \E input \in ConcInputs : Call(t, input)
    \/ Lock(t)
    \/ Load(t)
    \/ Store(t)
    \/ Unlock(t)
    \/ Match(t)

SpecConc == InitConc /\ [][NextConc]_vars

----------------------------------------------------------------------------
(* normalizeDomain applied on its own, once and then to its own result.    *)

NormChars == { "a", "B", ".", ":", "[" }

NormArgs == SeqsUpTo(NormChars, MaxLen) \cup { InIPv6, InDotPort, InPortDot }

Normalize ==
  /\ fn.step = 0
  /\ fn' = [fn EXCEPT !.out = normalizeDomain(fn.arg), !.step = 1]
  /\ UNCHANGED << strict, scopeFile, checker, stats, mu, calls, last, thr >>

Renormalize ==
  /\ fn.step = 1
  /\ fn' = [fn EXCEPT !.again = normalizeDomain(fn.out), !.step = 2]
  /\ UNCHANGED << strict, scopeFile, checker, stats, mu, calls, last, thr >>

InitNormalize ==
  /\ strict = FALSE
  /\ scopeFile = NoFile
  /\ checker = NoChecker
  /\ stats = ZeroStats
  /\ mu = 0
  /\ calls = 0
  /\ last = NoCall
  /\ thr = [t \in Threads |-> IdleThread]
  /\ \E arg \in NormArgs :
       fn = [op |-> "normalizeDomain", arg |-> arg, out |-> << >>,
             again |-> << >>, step |-> 0]

NextNormalize == Normalize \/ Renormalize

SpecNormalize == InitNormalize /\ [][NextNormalize]_vars

----------------------------------------------------------------------------
(* One scope line compiled as newScopeChecker compiles it (lines 126-128), *)
(* and the compiled pattern matched against one domain (lines 74, 83).     *)

GlobChars == { "a", ".", "*", "$" }

DomChars == { "a", "b", "." }

GlobLines == SeqsUpTo(GlobChars, MaxLineLen) \cup { LineWildcard, LineLiteral }

GlobDoms == SeqsUpTo(DomChars, MaxDomLen) \cup { InFoo, InApex }

Compile ==
  /\ fn.step = 0
  /\ fn' = [fn EXCEPT !.re = regexpCompile(convertWildcardToRegex(fn.line)),
                      !.step = 1]
  /\ UNCHANGED << strict, scopeFile, checker, stats, mu, calls, last, thr >>

Matches ==
  /\ fn.step = 1
  /\ fn.re.ok
  /\ fn' = [fn EXCEPT !.matched = MatchString(fn.re, fn.dom), !.step = 2]
  /\ UNCHANGED << strict, scopeFile, checker, stats, mu, calls, last, thr >>

InitCompile ==
  /\ strict = FALSE
  /\ scopeFile = NoFile
  /\ checker = NoChecker
  /\ stats = ZeroStats
  /\ mu = 0
  /\ calls = 0
  /\ last = NoCall
  /\ thr = [t \in Threads |-> IdleThread]
  /\ \E line \in GlobLines, dom \in GlobDoms :
       fn = [op |-> "compile", line |-> line, dom |-> dom, re |-> RegexpError,
             matched |-> FALSE, step |-> 0]

NextCompile == Compile \/ Matches

SpecCompile == InitCompile /\ [][NextCompile]_vars


----------------------------------------------------------------------------
(* What the properties below speak of, said in the terms of the scope file *)
(* and of the input rather than of the checker's fields.                   *)

Min(S) == CHOOSE i \in S : \A j \in S : i <= j

IsIncludeLine(l) ==
  LET t == TrimSpace(l) IN t # << >> /\ t[1] \notin { "#", "!" }

IsExcludeLine(l) ==
  LET t == TrimSpace(l) IN t # << >> /\ t[1] = "!"

\* the include lines of the file as written, in file order
IncludeTexts ==
  LET inc == SelectSeq(scopeFile.lines, IsIncludeLine)
  IN [i \in 1..Len(inc) |-> TrimSpace(inc[i])]

\* the exclude lines as written, without the mark and the blanks around it
ExcludeTexts ==
  LET exc == SelectSeq(scopeFile.lines, IsExcludeLine)
  IN [i \in 1..Len(exc) |-> TrimSpace(Tail(TrimSpace(exc[i])))]

\* the pattern compiled from text accepts domain d
Accepts(text, d) ==
  LET re == regexpCompile(convertWildcardToRegex(text))
  IN re.ok /\ MatchString(re, d)

\* the includes, and the excludes, that accept d
IncludeHits(d) == { k \in DOMAIN IncludeTexts : Accepts(IncludeTexts[k], d) }
ExcludeHits(d) == { k \in DOMAIN ExcludeTexts : Accepts(ExcludeTexts[k], d) }

\* hostname extraction fails on a URL-like input while strict is set
StrictFailure(input) == strict /\ isURL(input) /\ getHostname(input).err

\* the normalized domain of an input: of its hostname when it is URL-like
\* and has one, else of the input itself
DomainOf(input) ==
  IF isURL(input) /\ ~getHostname(input).err
  THEN normalizeDomain(getHostname(input).hostname)
  ELSE normalizeDomain(input)

\* the regular expression a line without metacharacters stands for: each
\* "." escaped, each "*" as ".*", between "^" and "$"; a line with a
\* metacharacter is its own expression
RECURSIVE Translated(_)
Translated(text) ==
  IF text = << >> THEN << >>
  ELSE (CASE Head(text) = "." -> << "\\", "." >>
          [] Head(text) = "*" -> << ".", "*" >>
          [] OTHER -> << Head(text) >>) \o Translated(Tail(text))

SourceOf(text) ==
  IF \E i \in DOMAIN text : text[i] \in RegexMeta THEN text
  ELSE << "^" >> \o Translated(text) \o << "$" >>

Returned == checker.built = "ok" /\ calls > 0

----------------------------------------------------------------------------
(* Properties of the classification, under Spec.                           *)

\* C1: every completed call has incremented total by exactly 1 and exactly
\* one of inScope and outScope by exactly 1, so that
\* total = inScope + outScope = number of calls, strict failures included.
C1_EveryCallCounted ==
  /\ stats.total = calls
  /\ stats.inScope + stats.outScope = calls
  /\ Returned =>
       /\ stats.total = last.before.total + 1
       /\ stats.inScope + stats.outScope
            = last.before.inScope + last.before.outScope + 1

\* C2: whenever the normalized domain of the input is accepted by at least
\* one exclude pattern, the call returns out of scope with the label "!" and
\* the first such exclude in file order, whether or not an include accepts
\* the domain too, and it is recorded in outScope and not in inScope.
C2_ExclusionOverrides ==
  Returned /\ ~StrictFailure(last.input) =>
    LET hits == ExcludeHits(DomainOf(last.input))
    IN hits # {} =>
         /\ ~last.inScope
         /\ last.label
              = << "!" >> \o convertWildcardToRegex(ExcludeTexts[Min(hits)])
         /\ stats.outScope = last.before.outScope + 1
         /\ stats.inScope = last.before.inScope

\* C2's case: an input that an include and an exclude both accept
C2_Witness ==
  /\ Returned
  /\ last.input = InAdmin
  /\ IncludeHits(DomainOf(last.input)) # {}
  /\ ExcludeHits(DomainOf(last.input)) # {}
  /\ ~last.inScope
  /\ stats.outScope = last.before.outScope + 1

\* C3, as claimed: on a strict failure the excludes are still scanned
\* against the domain at hand, and the label is "!" and the first exclude
\* that accepts it, or empty when none does.
C3_StrictFailureScansExcludes ==
  Returned /\ StrictFailure(last.input) =>
    LET hits == ExcludeHits(DomainOf(last.input))
    IN /\ ~last.inScope
       /\ last.label
            = IF hits # {}
              THEN << "!" >> \o convertWildcardToRegex(ExcludeTexts[Min(hits)])
              ELSE << >>

\* C3, amended: on a strict failure no pattern is evaluated, neither include
\* nor exclude: the call returns out of scope with an empty label, whether or
\* not an exclude accepts the input.
C3_StrictFailureSkipsPatterns ==
  Returned /\ StrictFailure(last.input) =>
    ~last.inScope /\ last.label = << >>

\* C3's case: a strict failure on an input that an exclude would accept
C3_Witness ==
  /\ Returned
  /\ StrictFailure(last.input)
  /\ ExcludeHits(DomainOf(last.input)) # {}
  /\ last.label = << >>

\* C5: when no exclude accepts the normalized domain, the call returns in
\* scope exactly when some include accepts it, with the label of the first
\* such include in file order, and out of scope with an empty label
\* otherwise.
C5_FirstIncludeWins ==
  Returned /\ ~StrictFailure(last.input) =>
    LET d    == DomainOf(last.input)
        hits == IncludeHits(d)
    IN ExcludeHits(d) = {} =>
         /\ last.inScope = (hits # {})
         /\ last.label
              = IF hits # {}
                THEN convertWildcardToRegex(IncludeTexts[Min(hits)])
                ELSE << >>

\* C5's case: two includes with different labels accept the input
C5_Witness ==
  /\ Returned
  /\ last.inScope
  /\ \E j, k \in IncludeHits(DomainOf(last.input)) :
       /\ j < k
       /\ IncludeTexts[j] # IncludeTexts[k]
       /\ last.label = convertWildcardToRegex(IncludeTexts[j])

\* C6, as claimed: the label is the pattern's text as written in the scope
\* file, after the "!" of an exclude.
C6_LabelIsOriginalText ==
  Returned =>
    LET d == DomainOf(last.input)
    IN /\ last.inScope => last.label = IncludeTexts[Min(IncludeHits(d))]
       /\ ~last.inScope /\ last.label # << >> =>
            last.label = << "!" >> \o ExcludeTexts[Min(ExcludeHits(d))]

\* C6, amended: the label is the source of the compiled regular expression:
\* for a line without metacharacters its translation ("*.example.com" gives
\* "^.*\.example\.com$"), and the line as written only when it holds a
\* metacharacter; after "!" for an exclude.
C6_LabelIsCompiledSource ==
  Returned =>
    LET d == DomainOf(last.input)
    IN /\ last.inScope =>
            /\ IncludeHits(d) # {}
            /\ last.label = SourceOf(IncludeTexts[Min(IncludeHits(d))])
       /\ ~last.inScope /\ last.label # << >> =>
            /\ ExcludeHits(d) # {}
            /\ last.label
                 = << "!" >> \o SourceOf(ExcludeTexts[Min(ExcludeHits(d))])

LabelOfLineWildcard ==
  << "^", ".", "*", "\\", ".", "e", "x", "a", "m", "p", "l", "e", "\\", ".",
     "c", "o", "m", "$" >>

\* C6's case: the wildcard include "*.example.com" gave the label
C6_Witness ==
  /\ Returned
  /\ last.inScope
  /\ IncludeTexts[Min(IncludeHits(DomainOf(last.input)))] = LineWildcard
  /\ last.label = LabelOfLineWildcard


----------------------------------------------------------------------------
(* Properties of the construction, under SpecBuild.                        *)

\* every line the loop does not skip compiles
AllCompile ==
  /\ \A k \in DOMAIN IncludeTexts :
       regexpCompile(convertWildcardToRegex(IncludeTexts[k])).ok
  /\ \A k \in DOMAIN ExcludeTexts :
       regexpCompile(convertWildcardToRegex(ExcludeTexts[k])).ok

\* C7: over lines read without error that all compile, the construction
\* fails (with the error of a file without patterns) exactly when no
\* surviving line is an include; otherwise the checker holds the include
\* lines in patterns and the "!" lines in antipatterns, each in file order,
\* so that a built checker has at least one include.
C7_BuildOutcome ==
  checker.built # "none" /\ ~scopeFile.readErr /\ AllCompile =>
    /\ (checker.built = "error") = (IncludeTexts = << >>)
    /\ checker.built = "error" => checker.err = "nopatterns"
    /\ checker.built = "ok" =>
         /\ Len(checker.patterns) >= 1
         /\ [i \in DOMAIN checker.patterns |-> checker.patterns[i].src]
              = [i \in DOMAIN IncludeTexts |-> SourceOf(IncludeTexts[i])]
         /\ [i \in DOMAIN checker.antipatterns |-> checker.antipatterns[i].src]
              = [i \in DOMAIN ExcludeTexts |-> SourceOf(ExcludeTexts[i])]

\* C7's case: a file whose only patterns are excludes is refused
C7_Witness ==
  /\ checker.built = "error"
  /\ checker.err = "nopatterns"
  /\ ~scopeFile.readErr
  /\ ExcludeTexts # << >>
  /\ IncludeTexts = << >>

----------------------------------------------------------------------------
(* Properties of the compiled patterns, under SpecCompile.                 *)

\* the whole of d matches g read as a glob: "*" is any sequence of
\* characters, every other character is itself
RECURSIVE GlobMatch(_, _)
GlobMatch(g, d) ==
  IF g = << >> THEN d = << >>
  ELSE IF Head(g) = "*"
  THEN \E k \in 0..Len(d) : GlobMatch(Tail(g), SubSeq(d, k + 1, Len(d)))
  ELSE d # << >> /\ Head(d) = Head(g) /\ GlobMatch(Tail(g), Tail(d))

\* C8: a line without any of ^ $ [ ] { } ( ) + ? | \ compiles, and its
\* pattern accepts a domain exactly when the whole domain matches the line
\* read as a glob; "*.example.com" accepts "foo.example.com" and not
\* "example.com", and "example.com" accepts "example.com".
C8_WildcardIsGlob ==
  fn.op = "compile" /\ fn.step >= 1
  /\ ~(\E i \in DOMAIN fn.line : fn.line[i] \in RegexMeta) =>
    /\ fn.re.ok
    /\ fn.step = 2 =>
         /\ fn.matched = GlobMatch(fn.line, fn.dom)
         /\ fn.line = LineWildcard /\ fn.dom = InFoo => fn.matched
         /\ fn.line = LineWildcard /\ fn.dom = InApex => ~fn.matched
         /\ fn.line = LineLiteral => (fn.matched = (fn.dom = InApex))

\* C8's case: "*.example.com" matched against "foo.example.com"
C8_Witness ==
  /\ fn.op = "compile"
  /\ fn.step = 2
  /\ fn.line = LineWildcard
  /\ fn.dom = InFoo
  /\ fn.matched

----------------------------------------------------------------------------
(* Properties of normalizeDomain, under SpecNormalize.                     *)

C10_Idempotent ==
  fn.op = "normalizeDomain" /\ fn.step = 2 => fn.again = fn.out

----------------------------------------------------------------------------
(* Properties of concurrent calls, under SpecConc.                         *)

AllDone == \A t \in Threads : thr[t].pc = "done"

\* C4: once every goroutine's call has returned, total is the number of
\* calls and inScope the number of calls that returned true (and outScope
\* the number that returned false when strict is off); and a goroutine
\* reads or writes a counter only while it holds the mutex.
C4_NoLostUpdate ==
  /\ \A t \in Threads :
       thr[t].pc \in { "load", "store", "unlock" } => mu = t
  /\ AllDone =>
       /\ stats.total = NThreads
       /\ calls = NThreads
       /\ stats.inScope = Cardinality({ t \in Threads : thr[t].inScope })
       /\ ~strict =>
            stats.outScope = Cardinality({ t \in Threads : ~thr[t].inScope })

\* C4's case: all calls have returned, some in scope and some out of scope
C4_Witness ==
  /\ AllDone
  /\ stats.total = NThreads
  /\ \E t, u \in Threads : thr[t].inScope /\ ~thr[u].inScope

====
